---- MODULE Spec2Model ----
(***************************************************************************)
(* questdb-connect: the table-engine suffix compiler, the DDL compiler,    *)
(* the schema inspector (dialect.py) and the DBAPI connection adapter      *)
(* (__init__.py), as state machines over the objects they mutate.          *)
(*                                                                         *)
(* Python strings are TLA+ strings (TLC evaluates \o, Len and SubSeq on    *)
(* them), so the generated text is compared character for character.       *)
(***************************************************************************)
EXTENDS Integers, Sequences, FiniteSets, TLC

VARIABLES
    table,      \* the sqlalchemy Table object: name, columns, engine, metadata
    hist,       \* outcome of every get_table_suffix call on table.engine, oldest first
    db,         \* what the two introspection functions of the database return
    queries,    \* statements the last reflect_table sent through self.bind.execute
    client,     \* the last call that reached the underlying psycopg2 client
    cache,      \* keyword / function-name lists fetched on connect
    args,       \* arguments of the last call
    res         \* outcome of the last call: returned value or raised exception

vars == <<table, hist, db, queries, client, cache, args, res>>

-----------------------------------------------------------------------------
(* Bounds of the model *)

MaxCalls == 3       \* get_table_suffix calls recorded per descriptor
MaxCols == 2        \* columns of a declared / introspected table
MaxSegs == 3        \* text segments a query is assembled from

-----------------------------------------------------------------------------
(* Python values *)

\* Python's None (no column is named like this).
None == "<None>"

Return(v) == [kind |-> "return", value |-> v, error |-> None]
Raise(e) == [kind |-> "raise", value |-> None, error |-> e]
NoCall == [op |-> "none", kind |-> "return", value |-> None, error |-> None]

Outcome(op, o) == [op |-> op, kind |-> o.kind, value |-> o.value, error |-> o.error]

RECURSIVE Join(_, _)
\* sep.join(parts)
Join(sep, parts) ==
    IF parts = <<>> THEN ""
    ELSE IF Len(parts) = 1 THEN parts[1]
    ELSE parts[1] \o sep \o Join(sep, Tail(parts))

UpperChar(c) ==
    CASE c = "a" -> "A" [] c = "b" -> "B" [] c = "c" -> "C" [] c = "d" -> "D"
      [] c = "e" -> "E" [] c = "f" -> "F" [] c = "g" -> "G" [] c = "h" -> "H"
      [] c = "i" -> "I" [] c = "j" -> "J" [] c = "k" -> "K" [] c = "l" -> "L"
      [] c = "m" -> "M" [] c = "n" -> "N" [] c = "o" -> "O" [] c = "p" -> "P"
      [] c = "q" -> "Q" [] c = "r" -> "R" [] c = "s" -> "S" [] c = "t" -> "T"
      [] c = "u" -> "U" [] c = "v" -> "V" [] c = "w" -> "W" [] c = "x" -> "X"
      [] c = "y" -> "Y" [] c = "z" -> "Z" [] OTHER -> c

RECURSIVE Upper(_)
\* str.upper()
Upper(s) ==
    IF s = "" THEN ""
    ELSE UpperChar(SubSeq(s, 1, 1)) \o Upper(SubSeq(s, 2, Len(s)))

-----------------------------------------------------------------------------
(* types.PartitionBy and the type registry (questdb_connect.types is not    *)
(* among the sources: modelled from the specification)                      *)

\* enum{NONE, YEAR, MONTH, WEEK, DAY, HOUR}; a member is written as its .name
PartitionBy == {"NONE", "YEAR", "MONTH", "WEEK", "DAY", "HOUR"}

\* Raw type names with a registry entry, as used by the test model.
QUESTDB_TYPES == {"BOOLEAN", "INT", "SYMBOL", "DOUBLE", "TIMESTAMP"}

\* A generic framework type that is no QDBTypeMixin.
GenericType == "sqlalchemy.Integer"

\* types.resolve_type_from_name: total on the registry, fails elsewhere.
resolve_type_from_name(raw) ==
    IF raw \in QUESTDB_TYPES THEN Return(raw) ELSE Raise("UnknownTypeError")

\* QDBTypeMixin.column_spec(column_name): the type renders its own spec.
column_spec(type, column_name) == "'" \o column_name \o "' " \o type

-----------------------------------------------------------------------------
(* QDBTableEngine *)

\* Parameters of QDBTableEngine.__init__ besides self.
InitParams == {"table_name", "ts_col_name", "partition_by", "is_wal"}

\* QDBTableEngine(table_name, ts_col_name, partition_by, is_wal, **extra):
\* Python binds the keywords to the signature before the body runs and raises
\* TypeError for a keyword the signature does not have.
QDBTableEngine_init(call) ==
    IF \E i \in 1..Len(call.extra) : call.extra[i].kw \notin InitParams
    THEN [self |-> <<>>] @@ Raise("TypeError")
    ELSE [self |-> <<[name |-> call.table_name,
                      ts_col_name |-> call.ts_col_name,
                      partition_by |-> call.partition_by,
                      is_wal |-> call.is_wal,
                      compiled |-> None]>>] @@ Return(None)

\* A suffix compiler whose inner else branch is reached for a non-WAL table.
get_table_suffix_bypass_wal(self) ==
    IF self.compiled # None
    THEN [self |-> self] @@ Return(self.compiled)
    ELSE LET has_ts == self.ts_col_name # None
             is_partitioned == self.partition_by # "NONE"
             c1 == IF has_ts THEN "TIMESTAMP(" \o self.ts_col_name \o ")" ELSE ""
             c2 == IF is_partitioned THEN c1 \o " PARTITION BY " \o self.partition_by ELSE c1
             c3 == IF self.is_wal THEN c2 \o " WAL" ELSE c2 \o " BYPASS WAL"
         IN  IF is_partitioned /\ ~has_ts
             THEN [self |-> [self EXCEPT !.compiled = c1]] @@ Raise("ArgumentError")
             ELSE IF self.is_wal /\ ~is_partitioned
             THEN [self |-> [self EXCEPT !.compiled = c2]] @@ Raise("ArgumentError")
             ELSE [self |-> [self EXCEPT !.compiled = c3]] @@ Return(c3)

\* QDBTableEngine.get_table_suffix: the new state of the descriptor and the
\* outcome.  self.compiled is assigned '' and then grown clause by clause, so a
\* raise leaves in it whatever had been appended so far.  A PartitionBy member
\* is truthy (a plain enum), so is_partitioned is partition_by != NONE.
get_table_suffix(self) ==
    IF self.compiled # None
    THEN [self |-> self] @@ Return(self.compiled)
    ELSE LET has_ts == self.ts_col_name # None
             is_partitioned == self.partition_by # "NONE"
             c0 == ""
             c1 == IF has_ts THEN c0 \o "TIMESTAMP(" \o self.ts_col_name \o ")" ELSE c0
             c2 == IF is_partitioned THEN c1 \o " PARTITION BY " \o self.partition_by ELSE c1
             c3 == IF self.is_wal THEN c2 \o " WAL" ELSE c2
         IN  IF is_partitioned /\ ~has_ts
             THEN [self |-> [self EXCEPT !.compiled = c1]] @@ Raise("ArgumentError")
             ELSE IF self.is_wal /\ ~is_partitioned
             THEN [self |-> [self EXCEPT !.compiled = c2]] @@ Raise("ArgumentError")
             ELSE [self |-> [self EXCEPT !.compiled = c3]] @@ Return(c3)

-----------------------------------------------------------------------------
(* QDBDDLCompiler *)

\* QDBDDLCompiler.get_column_specification
get_column_specification(column) ==
    IF column.type \notin QUESTDB_TYPES
    THEN Raise("ArgumentError")
    ELSE Return(column_spec(column.type, column.name))

RECURSIVE ColumnSpecs(_)
\* [self.get_column_specification(c.element) for c in create.columns]: the
\* list of specs, or the first exception raised while building it.
ColumnSpecs(columns) ==
    IF columns = <<>> THEN Return(<<>>)
    ELSE LET head == get_column_specification(columns[1])
         IN  IF head.kind = "raise" THEN head
             ELSE LET rest == ColumnSpecs(Tail(columns))
                  IN  IF rest.kind = "raise" THEN rest
                      ELSE Return(<<head.value>> \o rest.value)

\* QDBDDLCompiler.visit_create_table: the table after the call (its engine's
\* cache may have been filled), the suffix call made if any, and the outcome.
\* A Table nobody attached an engine to has no attribute "engine".
visit_create_table(t) ==
    LET specs == ColumnSpecs(t.columns)
    IN  IF specs.kind = "raise"
        THEN [table |-> t, suffix |-> <<>>] @@ specs
        ELSE IF t.engine = <<>>
        THEN [table |-> t, suffix |-> <<>>] @@ Raise("AttributeError")
        ELSE LET create_table == "CREATE TABLE '" \o t.name \o "' ("
                                     \o Join(", ", specs.value)
                 s == get_table_suffix(t.engine[1])
                 o == [kind |-> s.kind, value |-> s.value, error |-> s.error]
             IN  [table |-> [t EXCEPT !.engine = <<s.self>>], suffix |-> <<o>>]
                 @@ (IF s.kind = "raise" THEN o
                     ELSE Return(create_table \o ") " \o s.value))

\* A schema visitor that emits the generic statement instead of refusing.
visit_schema_emits(element) == Return("CREATE SCHEMA " \o element)

\* QDBDDLCompiler.visit_create_schema
visit_create_schema(element) == Raise("Exception: QuestDB does not support SCHEMAS")

\* QDBDDLCompiler.visit_drop_schema
visit_drop_schema(element) == Raise("Exception: QuestDB does not support SCHEMAS")

-----------------------------------------------------------------------------
(* Declaring tables and compiling DDL *)

\* A Table object nothing has been declared on or reflected into.
FreshTable(name) ==
    [name |-> name, columns |-> <<>>, engine |-> <<>>, metadata |-> "original"]

Column(name, type, primary_key) ==
    [name |-> name, type |-> type, primary_key |-> primary_key]

\* Columns a declarative model may carry (the last one has a generic type).
ColDefs ==
    { Column("ts", "TIMESTAMP", TRUE),
      Column("a", "INT", FALSE),
      Column("b", GenericType, FALSE) }

\* Sequences of at most n distinct members of S.
DistinctSeqs(S, n) ==
    UNION { { q \in [1..k -> S] : \A i, j \in 1..k : i # j => q[i] # q[j] } : k \in 0..n }

\* Keyword arguments beyond the four of the signature, as the metrics fixture passes.
DedupKeys == <<"source", "attr_name", "ts">>

EngineCalls ==
    [ table_name : {"t"},
      ts_col_name : {None, "ts"},
      partition_by : PartitionBy,
      is_wal : BOOLEAN,
      extra : { <<>>, <<[kw |-> "dedup_upsert_keys", value |-> DedupKeys]>> } ]

NoDb == [tables |-> <<>>, table_columns |-> <<>>]
NoClient == [fn |-> "none"]
NoCache == [keywords |-> FALSE, functions |-> FALSE]

\* class Model(Base): __table_args__ = (QDBTableEngine(...),) with its columns:
\* the descriptor is constructed, then _set_parent attaches it to the new Table.
\* A MetaData holds one Table per name, so the model class is declared once; a
\* declaration whose descriptor could not be constructed declares nothing.
DefineTable(cols, call) ==
    LET e == QDBTableEngine_init(call)
    IN  /\ table.engine = <<>>
        /\ args' = [columns |-> cols, call |-> call]
        /\ res' = Outcome("QDBTableEngine", e)
        /\ IF e.kind = "raise"
           THEN UNCHANGED <<table, hist>>
           ELSE /\ table' = [FreshTable(call.table_name) EXCEPT
                                !.columns = cols, !.engine = e.self]
                /\ hist' = <<>>
        /\ UNCHANGED <<db, queries, client, cache>>

\* table.engine.get_table_suffix() called directly
GetTableSuffix ==
    /\ table.engine # <<>>
    /\ Len(hist) < MaxCalls
    /\ LET s == get_table_suffix(table.engine[1])
           o == [kind |-> s.kind, value |-> s.value, error |-> s.error]
       IN  /\ table' = [table EXCEPT !.engine = <<s.self>>]
           /\ hist' = Append(hist, o)
           /\ res' = Outcome("get_table_suffix", o)
    /\ args' = <<>>
    /\ UNCHANGED <<db, queries, client, cache>>

\* Compiling CreateTable(table)
VisitCreateTable ==
    /\ Len(hist) < MaxCalls
    /\ LET v == visit_create_table(table)
       IN  /\ table' = v.table
           /\ hist' = hist \o v.suffix
           /\ res' = Outcome("visit_create_table", v)
    /\ args' = <<>>
    /\ UNCHANGED <<db, queries, client, cache>>

SchemaNames == {"public", "metrics"}

\* Compiling CreateSchema(name)
VisitCreateSchema(element) ==
    /\ res' = Outcome("visit_create_schema", visit_create_schema(element))
    /\ args' = [element |-> element]
    /\ UNCHANGED <<table, hist, db, queries, client, cache>>

\* Compiling DropSchema(name)
VisitDropSchema(element) ==
    /\ res' = Outcome("visit_drop_schema", visit_drop_schema(element))
    /\ args' = [element |-> element]
    /\ UNCHANGED <<table, hist, db, queries, client, cache>>

InitDDL ==
    /\ table = FreshTable("t")
    /\ hist = <<>>
    /\ db = NoDb
    /\ queries = <<>>
    /\ client = NoClient
    /\ cache = NoCache
    /\ args = <<>>
    /\ res = NoCall

NextDDL ==
    \/ \E cols \in DistinctSeqs(ColDefs, MaxCols), call \in EngineCalls : DefineTable(cols, call)
    \/ GetTableSuffix
    \/ VisitCreateTable
    \/ \E element \in SchemaNames : VisitCreateSchema(element)
    \/ \E element \in SchemaNames : VisitDropSchema(element)

SpecDDL == InitDDL /\ [][NextDDL]_vars

-----------------------------------------------------------------------------
(* QDBInspector *)

\* Optional arguments: <<>> is None, <<v>> is the value v.
Nothing == <<>>
Some(v) == <<v>>

\* bool(x) of an optional collection: None and the empty collection are falsy.
Truthy(opt) == opt # Nothing /\ opt[1] # {}

\* bool(result_set): self.bind.execute returns the framework's result object,
\* which defines neither __bool__ nor __len__, so it is truthy whatever rows
\* it holds.
ResultTruthy(result_set) == TRUE

\* result_set.first(): the first row, or None when there is none.
First(result_set) == IF result_set = <<>> THEN Nothing ELSE Some(result_set[1])

\* Column rows compared with ==, not case-insensitively.
RECURSIVE ReflectColumnsCaseSensitive(_, _, _, _, _)
ReflectColumnsCaseSensitive(rows, col_ts_name, include_columns, exclude_columns, columns) ==
    IF rows = <<>> THEN [columns |-> columns] @@ Return(None)
    ELSE LET col_name == rows[1][1]
             rest == Tail(rows)
         IN  IF Truthy(include_columns) /\ col_name \notin include_columns[1]
             THEN ReflectColumnsCaseSensitive(rest, col_ts_name, include_columns,
                                              exclude_columns, columns)
             ELSE IF Truthy(exclude_columns) /\ col_name \in exclude_columns[1]
             THEN ReflectColumnsCaseSensitive(rest, col_ts_name, include_columns,
                                              exclude_columns, columns)
             ELSE LET col_type == resolve_type_from_name(rows[1][2])
                  IN  IF col_type.kind = "raise"
                      THEN [columns |-> columns] @@ col_type
                      ELSE ReflectColumnsCaseSensitive(rest, col_ts_name, include_columns,
                               exclude_columns,
                               Append(columns, Column(col_name, col_type.value,
                                                      col_ts_name = col_name)))

RECURSIVE ReflectColumns(_, _, _, _, _)
\* The loop of reflect_table over the rows of table_columns('<name>'), from the
\* columns the table holds so far: the columns it holds when the loop ends or
\* raises, and how it ended.
ReflectColumns(rows, col_ts_name, include_columns, exclude_columns, columns) ==
    IF rows = <<>> THEN [columns |-> columns] @@ Return(None)
    ELSE LET col_name == rows[1][1]
             rest == Tail(rows)
         IN  IF Truthy(include_columns) /\ col_name \notin include_columns[1]
             THEN ReflectColumns(rest, col_ts_name, include_columns, exclude_columns, columns)
             ELSE IF Truthy(exclude_columns) /\ col_name \in exclude_columns[1]
             THEN ReflectColumns(rest, col_ts_name, include_columns, exclude_columns, columns)
             ELSE LET col_type == resolve_type_from_name(rows[1][2])
                      is_ts == /\ col_ts_name # None
                               /\ col_ts_name # ""
                               /\ Upper(col_ts_name) = Upper(col_name)
                  IN  IF col_type.kind = "raise"
                      THEN [columns |-> columns] @@ col_type
                      ELSE ReflectColumns(rest, col_ts_name, include_columns, exclude_columns,
                               Append(columns, Column(col_name, col_type.value, is_ts)))

TablesQuery(table_name) == "tables() WHERE name = '" \o table_name \o "'"
ColumnsQuery(table_name) == "table_columns('" \o table_name \o "')"

\* The engine descriptor of reflect_table's last lines.
ReflectedEngine(table_name, col_ts_name, partition_by, is_wal) ==
    QDBTableEngine_init([table_name |-> table_name, ts_col_name |-> col_ts_name,
                         partition_by |-> partition_by, is_wal |-> is_wal,
                         extra |-> <<>>]).self

\* A reflect_table that builds and attaches the descriptor before the column loop.
reflect_table_engine_first(t, include_columns, exclude_columns, d) ==
    LET result_set == d.tables
        table_attrs == First(result_set)
        q1 == <<TablesQuery(t.name)>>
    IN  IF table_attrs = Nothing
        THEN [table |-> t, queries |-> q1] @@ Raise("TypeError")
        ELSE LET row == table_attrs[1]
                 t1 == [t EXCEPT !.engine = ReflectedEngine(t.name, row.designatedTimestamp,
                                                row.partitionBy, row.walEnabled)]
                 loop == ReflectColumns(d.table_columns, row.designatedTimestamp,
                                        include_columns, exclude_columns, t.columns)
                 t2 == [t1 EXCEPT !.columns = loop.columns]
             IN  IF loop.kind = "raise"
                 THEN [table |-> t2, queries |-> q1 \o <<ColumnsQuery(t.name)>>]
                      @@ Raise(loop.error)
                 ELSE [table |-> [t2 EXCEPT !.metadata = "fresh"],
                       queries |-> q1 \o <<ColumnsQuery(t.name)>>] @@ Return(None)

\* QDBInspector.reflect_table on database d: the table object after the call,
\* the statements executed, and the outcome.
reflect_table(t, include_columns, exclude_columns, d) ==
    LET table_name == t.name
        result_set == d.tables
        q1 == <<TablesQuery(table_name)>>
    IN  IF ~ResultTruthy(result_set)
        THEN [table |-> t, queries |-> q1] @@ Raise("NoResultFound")
        ELSE LET table_attrs == First(result_set)
             IN  IF table_attrs = Nothing
                 \* None['designatedTimestamp']
                 THEN [table |-> t, queries |-> q1] @@ Raise("TypeError")
                 ELSE IF table_attrs[1].partitionBy \notin PartitionBy
                 \* types.PartitionBy[...]
                 THEN [table |-> t, queries |-> q1] @@ Raise("KeyError")
                 ELSE LET col_ts_name == table_attrs[1].designatedTimestamp
                          partition_by == table_attrs[1].partitionBy
                          is_wal == IF table_attrs[1].walEnabled THEN TRUE ELSE FALSE
                          q2 == q1 \o <<ColumnsQuery(table_name)>>
                          loop == ReflectColumns(d.table_columns, col_ts_name,
                                                 include_columns, exclude_columns, t.columns)
                          t1 == [t EXCEPT !.columns = loop.columns]
                      IN  IF loop.kind = "raise"
                          THEN [table |-> t1, queries |-> q2] @@ Raise(loop.error)
                          ELSE [table |-> [t1 EXCEPT
                                    !.engine = ReflectedEngine(table_name, col_ts_name,
                                                               partition_by, is_wal),
                                    !.metadata = "fresh"],
                                queries |-> q2] @@ Return(None)

\* Column names of the database and raw type names its column listing reports;
\* the last one has no registry entry.
ColumnNames == {"ts", "a", "b"}
RawTypes == {"TIMESTAMP", "INT", "IPV4"}

\* Column listings: at most MaxCols rows <<name, raw type>>; the database keeps
\* column names unique regardless of case.
ColumnListings ==
    { q \in DistinctSeqs(ColumnNames \X RawTypes, MaxCols) :
        \A i, j \in 1..Len(q) : i # j => Upper(q[i][1]) # Upper(q[j][1]) }

\* tables() rows for a listing: the designated timestamp, when there is one, is
\* a TIMESTAMP column of the table, reported in either case.
TableRows(listing) ==
    [ designatedTimestamp :
          {None} \cup { n \in {"ts", "TS"} :
                          \E i \in 1..Len(listing) :
                              /\ Upper(listing[i][1]) = Upper(n)
                              /\ listing[i][2] = "TIMESTAMP" },
      partitionBy : PartitionBy,
      walEnabled : BOOLEAN ]

\* The databases reflected from: one without the table, and every table.
Databases ==
    {NoDb} \cup UNION { { [tables |-> <<r>>, table_columns |-> listing] :
                            r \in TableRows(listing) } : listing \in ColumnListings }

IncludeArgs == {Nothing, Some({}), Some({"a"}), Some({"ts", "a"})}
ExcludeArgs == {Nothing, Some({"b"}), Some({"a", "ts"})}

\* Table('t', MetaData(), autoload_with=engine): reflect into a new Table.
ReflectTable(include_columns, exclude_columns) ==
    LET before == FreshTable("t")
        r == reflect_table(before, include_columns, exclude_columns, db)
    IN  /\ table' = r.table
        /\ queries' = r.queries
        /\ res' = Outcome("reflect_table", r)
        /\ args' = [table |-> before, include_columns |-> include_columns,
                    exclude_columns |-> exclude_columns]
        /\ hist' = <<>>
        /\ UNCHANGED <<db, client, cache>>

InitReflect ==
    /\ table = FreshTable("t")
    /\ hist = <<>>
    /\ db \in Databases
    /\ queries = <<>>
    /\ client = NoClient
    /\ cache = NoCache
    /\ args = <<>>
    /\ res = NoCall

NextReflect ==
    \E include_columns \in IncludeArgs, exclude_columns \in ExcludeArgs :
        ReflectTable(include_columns, exclude_columns)

SpecReflect == InitReflect /\ [][NextReflect]_vars

-----------------------------------------------------------------------------
(* DBAPI: Cursor.execute and connect *)

PublicPrefix == "public."

RECURSIVE remove_public_schema(_)
\* common.remove_public_schema (not among the sources: modelled from the
\* specification): the query text with each "public." removed, scanning left
\* to right.
remove_public_schema(query) ==
    IF Len(query) < Len(PublicPrefix) THEN query
    ELSE IF SubSeq(query, 1, Len(PublicPrefix)) = PublicPrefix
    THEN remove_public_schema(SubSeq(query, Len(PublicPrefix) + 1, Len(query)))
    ELSE SubSeq(query, 1, 1) \o remove_public_schema(SubSeq(query, 2, Len(query)))

\* A cursor that hands the query text on as it came.
execute_unrewritten(query, bound_vars) ==
    [fn |-> "execute", query |-> query, vars |-> bound_vars]

\* Cursor.execute(query, vars): what super().execute receives.
execute(query, bound_vars) ==
    [fn |-> "execute", query |-> remove_public_schema(query), vars |-> bound_vars]

\* kwargs.get(key) or default: a missing, None or falsy value gives the default.
GetOr(opt, falsy, default) ==
    IF opt # Nothing /\ opt[1] # falsy THEN opt[1] ELSE default

DefaultPort == 8812

\* connect(**kwargs): what psycopg2.connect receives.
connect(kwargs) ==
    [fn |-> "connect",
     cursor_factory |-> "cursor_factory",
     host |-> GetOr(kwargs.host, "", "127.0.0.1"),
     port |-> GetOr(kwargs.port, 0, DefaultPort),
     user |-> GetOr(kwargs.username, "", "admin"),
     password |-> GetOr(kwargs.password, "", "quest"),
     database |-> GetOr(kwargs.database, "", "main")]

\* get_keywords_list(conn); get_functions_list(conn) (not among the sources:
\* modelled from the specification): both lists are fetched and kept.
warm_cache(c) == [keywords |-> TRUE, functions |-> TRUE]

\* Pieces queries are put together from.
Segments == {"SELECT * FROM ", PublicPrefix, "other.", "t"}

QuerySegs == UNION { [1..k -> Segments] : k \in 0..MaxSegs }

BoundVars == {Nothing, Some([name |-> "x"])}

\* cursor.execute(query, vars)
CursorExecute(segs, bound) ==
    LET query == Join("", segs)
    IN  /\ client' = execute(query, bound)
        /\ args' = [segs |-> segs, query |-> query, vars |-> bound]
        /\ res' = Outcome("execute", Return(None))
        /\ UNCHANGED <<table, hist, db, queries, cache>>

\* Keyword arguments a caller may pass to connect: each absent, falsy or set.
ConnectKwargs ==
    [ host : {Nothing, Some(""), Some("db.example.org")},
      port : {Nothing, Some(0), Some(9000)},
      user : {Nothing, Some("joe")},
      username : {Nothing, Some(""), Some("joe")},
      password : {Nothing, Some(""), Some("secret")},
      database : {Nothing, Some(""), Some("qdb")} ]

\* questdb_connect.connect(**kwargs)
Connect(kwargs) ==
    /\ client' = connect(kwargs)
    /\ cache' = warm_cache(cache)
    /\ args' = [kwargs |-> kwargs]
    /\ res' = Outcome("connect", Return("Connection"))
    /\ UNCHANGED <<table, hist, db, queries>>

InitDBAPI ==
    /\ table = FreshTable("t")
    /\ hist = <<>>
    /\ db = NoDb
    /\ queries = <<>>
    /\ client = NoClient
    /\ cache = NoCache
    /\ args = <<>>
    /\ res = NoCall

NextDBAPI ==
    \/ \E segs \in QuerySegs, bound \in BoundVars : CursorExecute(segs, bound)
    \/ \E kwargs \in ConnectKwargs : Connect(kwargs)

SpecDBAPI == InitDBAPI /\ [][NextDBAPI]_vars

-----------------------------------------------------------------------------
(* Properties *)

\* The invariant of the data model: a partitioned table has a designated
\* timestamp, and a WAL table is partitioned.
ValidCombination(e) ==
    /\ e.partition_by # "NONE" => e.ts_col_name # None
    /\ e.is_wal => e.partition_by # "NONE"

\* The clauses a valid descriptor calls for, in order, joined by single spaces.
ExpectedSuffix(e) ==
    Join(" ",
         (IF e.ts_col_name # None THEN <<"TIMESTAMP(" \o e.ts_col_name \o ")">> ELSE <<>>)
         \o (IF e.partition_by # "NONE" THEN <<"PARTITION BY " \o e.partition_by>> ELSE <<>>)
         \o (IF e.is_wal THEN <<"WAL">> ELSE <<>>))

\* C1: on a descriptor with an invalid combination every get_table_suffix call,
\* the first and any later one, raises ArgumentError; none returns a string.
C1_InvalidAlwaysRaises ==
    (table.engine # <<>> /\ ~ValidCombination(table.engine[1]))
        => \A i \in 1..Len(hist) :
               hist[i].kind = "raise" /\ hist[i].error = "ArgumentError"

\* C2: on a descriptor with a valid combination every get_table_suffix call,
\* the first and each repeated one, returns exactly the expected clauses in the
\* order TIMESTAMP, PARTITION BY, WAL joined by single spaces; for ts, DAY, WAL
\* that is 'TIMESTAMP(ts) PARTITION BY DAY WAL'.
C2_ValidSuffixExact ==
    (table.engine # <<>> /\ ValidCombination(table.engine[1]))
        => \A i \in 1..Len(hist) :
               /\ hist[i] = Return(ExpectedSuffix(table.engine[1]))
               /\ ( /\ table.engine[1].ts_col_name = "ts"
                    /\ table.engine[1].partition_by = "DAY"
                    /\ table.engine[1].is_wal )
                  => hist[i].value = "TIMESTAMP(ts) PARTITION BY DAY WAL"

\* C2 witness: the ts / DAY / WAL descriptor has answered twice, the second
\* time from its cache.
C2_Witness ==
    /\ table.engine # <<>>
    /\ table.engine[1].ts_col_name = "ts"
    /\ table.engine[1].partition_by = "DAY"
    /\ table.engine[1].is_wal
    /\ Len(hist) >= 2
    /\ hist[2].value = "TIMESTAMP(ts) PARTITION BY DAY WAL"

AllQuestDBTypes(columns) == \A i \in 1..Len(columns) : columns[i].type \in QUESTDB_TYPES

ExpectedDDL(t) ==
    "CREATE TABLE '" \o t.name \o "' ("
        \o Join(", ", [i \in 1..Len(t.columns) |->
                          column_spec(t.columns[i].type, t.columns[i].name)])
        \o ") " \o ExpectedSuffix(t.engine[1])

\* C5: visit_create_table on a table with an engine descriptor returns exactly
\* the CREATE TABLE text with the column specs in declaration order and the
\* suffix; with a column of a non-QuestDB type or an invalid descriptor it
\* raises ArgumentError and returns no text.
C5_CreateTableExactOrRaises ==
    (res.op = "visit_create_table" /\ table.engine # <<>>)
        => IF AllQuestDBTypes(table.columns) /\ ValidCombination(table.engine[1])
           THEN res.kind = "return" /\ res.value = ExpectedDDL(table)
           ELSE res.kind = "raise" /\ res.error = "ArgumentError" /\ res.value = None

\* C8: visit_create_schema and visit_drop_schema raise the unsupported-schema
\* error on every call and never return text.
C8_SchemaVisitorsRaise ==
    res.op \in {"visit_create_schema", "visit_drop_schema"}
        => /\ res.kind = "raise"
           /\ res.error = "Exception: QuestDB does not support SCHEMAS"
           /\ res.value = None

\* C8 witness: a schema visitor has been called after DDL was compiled for the
\* table.
C8_Witness ==
    /\ res.op \in {"visit_create_schema", "visit_drop_schema"}
    /\ res.kind = "raise"
    /\ table.engine # <<>>
    /\ table.engine[1].compiled # None

\* C9: constructing a descriptor with dedup_upsert_keys succeeds and the
\* descriptor holds the keys in the given order.
C9_DedupKeysAccepted ==
    (res.op = "QDBTableEngine" /\ args.call.extra # <<>>)
        => /\ res.kind = "return"
           /\ table.engine # <<>>
           /\ "dedup_upsert_keys" \in DOMAIN table.engine[1]
           /\ table.engine[1].dedup_upsert_keys = args.call.extra[1].value

\* Whether a column row passes the filters of reflect_table.
Passes(row, include_columns, exclude_columns) ==
    /\ (include_columns # Nothing /\ include_columns[1] # {}) => row[1] \in include_columns[1]
    /\ exclude_columns # Nothing => row[1] \notin exclude_columns[1]

PassingRows(a) ==
    SelectSeq(db.table_columns,
              LAMBDA row : Passes(row, a.include_columns, a.exclude_columns))

SameIgnoringCase(x, y) == x # None /\ y # None /\ Upper(x) = Upper(y)

\* C3: a successful reflect_table appends exactly the column rows passing the
\* filters, in query order, marks primary key the columns named like the
\* designated timestamp ignoring case (with no filters: all N rows, exactly
\* the designated-timestamp row marked), and attaches a descriptor carrying
\* the designated timestamp, partition_by and WAL flag of the table row.
C3_ReflectExact ==
    (res.op = "reflect_table" /\ res.kind = "return")
        => LET rows == PassingRows(args)
               meta == db.tables[1]
           IN  /\ Len(table.columns) = Len(rows)
               /\ \A i \in 1..Len(rows) :
                      /\ table.columns[i].name = rows[i][1]
                      /\ table.columns[i].type = rows[i][2]
                      /\ table.columns[i].primary_key
                             <=> SameIgnoringCase(rows[i][1], meta.designatedTimestamp)
               /\ (args.include_columns = Nothing /\ args.exclude_columns = Nothing)
                      => /\ Len(table.columns) = Len(db.table_columns)
                         /\ \A k \in 1..Len(db.table_columns) :
                                SameIgnoringCase(db.table_columns[k][1],
                                                 meta.designatedTimestamp)
                                    => { i \in 1..Len(table.columns) :
                                             table.columns[i].primary_key } = {k}
               /\ table.engine = <<[name |-> args.table.name,
                                    ts_col_name |-> meta.designatedTimestamp,
                                    partition_by |-> meta.partitionBy,
                                    is_wal |-> meta.walEnabled,
                                    compiled |-> None]>>

\* C3 witness: two rows reflected without filters, the second being the
\* designated timestamp, which the table row reports in another case.
C3_Witness ==
    /\ res.op = "reflect_table" /\ res.kind = "return"
    /\ args.include_columns = Nothing /\ args.exclude_columns = Nothing
    /\ db.tables[1].designatedTimestamp = "TS"
    /\ Len(table.columns) = 2
    /\ ~table.columns[1].primary_key
    /\ table.columns[2].name = "ts" /\ table.columns[2].primary_key

\* C4: with no row for the table, reflect_table raises NoResultFound, and no
\* other error, having sent only the table-metadata query and left the table
\* without columns and without descriptor.
C4_MissingTableNotFound ==
    (res.op = "reflect_table" /\ db.tables = <<>>)
        => /\ res.kind = "raise" /\ res.error = "NoResultFound"
           /\ queries = <<TablesQuery(args.table.name)>>
           /\ table = args.table

\* C10 as stated: a type that cannot be resolved raises the unknown-type error
\* and leaves the table as it was before the call.
C10_TableUntouchedOnUnknownType ==
    (res.op = "reflect_table" /\ res.error = "UnknownTypeError")
        => res.kind = "raise" /\ table = args.table

\* The rows passing the filters that precede the first one of an unknown type.
RECURSIVE ResolvablePrefix(_)
ResolvablePrefix(rows) ==
    IF rows = <<>> \/ rows[1][2] \notin QUESTDB_TYPES THEN <<>>
    ELSE <<rows[1]>> \o ResolvablePrefix(Tail(rows))

\* C10 amended: a passing row of an unknown type makes reflect_table raise the
\* unknown-type error; no column gets a guessed type, no descriptor is attached
\* and the metadata is kept, but the columns of the passing rows before the
\* failing one stay appended.
C10_PrefixRemainsOnUnknownType ==
    /\ (res.op = "reflect_table" /\ db.tables # <<>>
            /\ \E i \in 1..Len(PassingRows(args)) :
                   PassingRows(args)[i][2] \notin QUESTDB_TYPES)
           => res.kind = "raise" /\ res.error = "UnknownTypeError" /\ res.value = None
    /\ (res.op = "reflect_table" /\ res.error = "UnknownTypeError")
           => LET kept == ResolvablePrefix(PassingRows(args))
              IN  /\ res.kind = "raise"
                  /\ Len(table.columns) = Len(args.table.columns) + Len(kept)
                  /\ \A i \in 1..Len(kept) :
                         /\ table.columns[Len(args.table.columns) + i].name = kept[i][1]
                         /\ table.columns[Len(args.table.columns) + i].type = kept[i][2]
                  /\ \A i \in 1..Len(table.columns) : table.columns[i].type \in QUESTDB_TYPES
                  /\ table.engine = args.table.engine
                  /\ table.metadata = args.table.metadata

\* C10 witness: the second row has an unknown type and the first one stays.
C10_Witness ==
    /\ res.op = "reflect_table" /\ res.error = "UnknownTypeError"
    /\ Len(table.columns) = 1
    /\ table.engine = <<>>

\* C6: every query reaches the client with each 'public.' removed and the rest
\* as written, the bound variables as given: 'SELECT * FROM public.t' goes out
\* as 'SELECT * FROM t', 'SELECT * FROM other.t' as written.
C6_PublicPrefixStripped ==
    res.op = "execute"
        => /\ client.fn = "execute"
           /\ client.query = Join("", SelectSeq(args.segs, LAMBDA g : g # PublicPrefix))
           /\ client.vars = args.vars
           /\ args.query = "SELECT * FROM public.t" => client.query = "SELECT * FROM t"
           /\ args.query = "SELECT * FROM other.t" => client.query = "SELECT * FROM other.t"

\* C6 witness: the literal scenario with bound variables.
C6_Witness ==
    /\ res.op = "execute"
    /\ args.query = "SELECT * FROM public.t"
    /\ args.vars # Nothing
    /\ client.query = "SELECT * FROM t"

Supplied(opt, default) == IF opt # Nothing THEN opt[1] ELSE default

\* C7: connect hands each of host, port, user, password, database to the
\* client as the caller supplied it, and its default when omitted.
C7_SuppliedArgumentsKept ==
    res.op = "connect"
        => /\ client.host = Supplied(args.kwargs.host, "127.0.0.1")
           /\ client.port = Supplied(args.kwargs.port, DefaultPort)
           /\ client.user = Supplied(args.kwargs.user, "admin")
           /\ client.password = Supplied(args.kwargs.password, "quest")
           /\ client.database = Supplied(args.kwargs.database, "main")

====
